---- MODULE Spec2Model ----
(***************************************************************************)
(* Model of the business-card extraction client                            *)
(* (src/services/geminiService.ts): one call of extractContactsFromImages, *)
(* the per-file preprocessImage promises it fans out, the single           *)
(* generateContent request, and the normalisation of the response.         *)
(***************************************************************************)
EXTENDS Integers, Sequences, FiniteSets, TLC

\* ---- bounds ------------------------------------------------------------
MaxFiles == 2
MaxItems == 2

\* ---- JavaScript / JSON values -----------------------------------------
\* Every value is a record of the same shape so that values of different
\* JavaScript types can be compared.
Undefined == [t |-> "undefined", s |-> "", a |-> <<>>]
Null == [t |-> "null", s |-> "", a |-> <<>>]
Str(x) == [t |-> "string", s |-> x, a |-> <<>>]
Arr(xs) == [t |-> "array", s |-> "", a |-> xs]

\* JavaScript truthiness: undefined, null and "" are falsy, every array
\* (the empty one included) is truthy.
Truthy(v) == \/ v.t = "array"
             \/ (v.t = "string" /\ v.s # "")

\* The expression `v || null`.
OrNull(v) == IF Truthy(v) THEN v ELSE Null

\* ---- ContactInfo ------------------------------------------------------
OptionalFields == {"companyName", "jobTitle", "address", "email",
                   "linkedinUrl", "phoneNumber", "website", "lineId",
                   "qrCodeUrl", "otherInfo"}
Fields == {"name"} \cup OptionalFields

\* The object literal built for one element of the parsed array.
ContactOf(item) ==
    [name |-> item.name,
     companyName |-> OrNull(item.companyName),
     jobTitle |-> OrNull(item.jobTitle),
     address |-> OrNull(item.address),
     email |-> OrNull(item.email),
     linkedinUrl |-> OrNull(item.linkedinUrl),
     phoneNumber |-> OrNull(item.phoneNumber),
     website |-> OrNull(item.website),
     lineId |-> OrNull(item.lineId),
     qrCodeUrl |-> OrNull(item.qrCodeUrl),
     otherInfo |-> OrNull(item.otherInfo)]

\* A map that first filters out the elements without a usable name.
MapContactsNamedOnly(elems) ==
    LET named == SelectSeq(elems, LAMBDA el : Truthy(el.o.name)) IN
    [i \in 1..Len(named) |-> ContactOf(named[i].o)]

\* parsedResult.map(item => ({...})): one record per element, in order.
MapContacts(elems) == [i \in 1..Len(elems) |-> ContactOf(elems[i].o)]

\* ---- what the model may answer ---------------------------------------
SeqsUpTo(S, n) == UNION {[1..k -> S] : k \in 0..n}

\* The values a key of a response object is let to hold: omitted, null and
\* empty or non-empty text or list.
TextValues == <<Undefined, Null, Str(""), Str("x"), Arr(<<>>), Arr(<<"x">>)>>

\* The optional keys in the order of lines 165-174.
KeyOrder == <<"companyName", "jobTitle", "address", "email", "linkedinUrl",
              "phoneNumber", "website", "lineId", "qrCodeUrl", "otherInfo">>
KeyIndex(f) == CHOOSE k \in 1..Len(KeyOrder) : KeyOrder[k] = f

\* An object with every key omitted.
EmptyObject == [f \in Fields |-> Undefined]

JaneDoe == [EmptyObject EXCEPT !.name = Str("Jane Doe")]

\* The response element of the end-to-end scenario.
JaneDoeScenario ==
    [JaneDoe EXCEPT !.email = Arr(<<"jane@x.com">>), !.phoneNumber = Arr(<<>>)]

\* A named person whose k-th optional key holds the (k + shift)-th value:
\* over the shifts, every key holds every value once.
Rotated(shift) ==
    [f \in Fields |->
        IF f = "name" THEN Str("John Roe")
        ELSE TextValues[((KeyIndex(f) + shift) % Len(TextValues)) + 1]]

\* The objects the model is let to emit: any name with nothing else, the
\* rotations, and the scenario object.
Items == {[EmptyObject EXCEPT !.name = n] : n \in {Undefined, Null, Str("")}}
         \cup {Rotated(shift) : shift \in 1..Len(TextValues)}
         \cup {JaneDoeScenario}

\* An array element is an object or the JSON null.
Elements == {[t |-> "object", o |-> it] : it \in Items}
            \cup {[t |-> "null", o |-> EmptyObject]}

\* A JSON document: an array of elements, or something that is not an array.
JsonArray(es) == [t |-> "array", elems |-> es]
NonArrayDocs == {[t |-> k, elems |-> <<>>] : k \in {"object", "null", "string"}}
Docs == NonArrayDocs \cup {JsonArray(es) : es \in SeqsUpTo(Elements, MaxItems)}

\* response.text: undefined, text that is not JSON, or the text of a document.
NoText == [kind |-> "undefined", doc |-> JsonArray(<<>>)]
Garbage == [kind |-> "garbage", doc |-> JsonArray(<<>>)]
ResponseTexts == {NoText, Garbage} \cup {[kind |-> "json", doc |-> d] : d \in Docs}

\* ---- errors -----------------------------------------------------------
\* kind tells an Error object from a DOM event; file is the index of the
\* file whose preprocessing produced the value (0: none).
NoError == [kind |-> "none", message |-> "", file |-> 0]
ConfigurationError ==
    [kind |-> "Error", message |-> "API_KEY environment variable not set.", file |-> 0]
RenderError(i) ==
    [kind |-> "Error", message |-> "Could not get canvas context", file |-> i]
DecodeError(i) == [kind |-> "Event", message |-> "image.onerror", file |-> i]
ReadError(i) == [kind |-> "ProgressEvent", message |-> "reader.onerror", file |-> i]
NotAnArrayError ==
    [kind |-> "Error", message |-> "AI response was not a JSON array.", file |-> 0]
ResponseFormatError ==
    [kind |-> "Error",
     message |-> "Could not process the response from the AI. The format was invalid.",
     file |-> 0]
TransportErrors ==
    {[kind |-> "Error", message |-> "Failed to fetch", file |-> 0],
     [kind |-> "Error", message |-> "503 Service Unavailable", file |-> 0]}

\* ---- the try block over the response ----------------------------------
\* response.text.trim() throws a TypeError when text is undefined.
TrimThrows(text) == text.kind = "undefined"
\* JSON.parse throws a SyntaxError on text that is not JSON.
JSONParseThrows(text) == text.kind = "garbage"
ArrayIsArray(doc) == doc.t = "array"
\* item.name throws a TypeError when the element is null.
MapThrows(elems) == \E i \in 1..Len(elems) : elems[i].t = "null"

Returned(list) == [threw |-> FALSE, value |-> list, error |-> NoError]
Thrown(e) == [threw |-> TRUE, value |-> <<>>, error |-> e]

TypeError == [kind |-> "Error", message |-> "TypeError", file |-> 0]
SyntaxError == [kind |-> "Error", message |-> "SyntaxError", file |-> 0]

\* The body of the try block: the first statement that throws ends it.
TryBlock(text) ==
    IF TrimThrows(text) THEN Thrown(TypeError)
    ELSE IF JSONParseThrows(text) THEN Thrown(SyntaxError)
    ELSE IF ~ArrayIsArray(text.doc) THEN Thrown(NotAnArrayError)
    ELSE IF MapThrows(text.doc.elems) THEN Thrown(TypeError)
    ELSE Returned(MapContacts(text.doc.elems))

\* A catch block that swallows the exception and yields an empty list.
CatchBlockSwallow(outcome) ==
    IF outcome.threw THEN Returned(<<>>) ELSE outcome

\* The catch block: whatever was thrown is replaced by one fixed error.
CatchBlock(outcome) ==
    IF outcome.threw THEN Thrown(ResponseFormatError) ELSE outcome

ParseResponse(text) == CatchBlock(TryBlock(text))

\* ---- input files and preprocessing -------------------------------------
InputFiles == {[name |-> "card.png", type |-> "image/png"],
               [name |-> "card.jpg", type |-> "image/jpeg"],
               [name |-> "card.webp", type |-> "image/webp"]}
FileLists == SeqsUpTo(InputFiles, MaxFiles)

\* process.env.API_KEY: unset, set to the empty string, or set.
ApiKeys == {Undefined, Str(""), Str("key")}

\* canvas.toDataURL('image/jpeg', 0.95) of the filtered drawing of the file:
\* the header and the encoded bytes, which are told apart by their source.
ToDataURL(file) ==
    <<"data:image/jpeg;base64",
      [source |-> file.name, filter |-> "contrast(1.5) brightness(1.1)"]>>

\* A preprocessImage that keeps the declared type of the input file.
PreprocessedKeepType(file) == [base64Data |-> ToDataURL(file)[2], mimeType |-> file.type]

\* The value preprocessImage resolves with: dataUrl.split(',')[1] and the
\* fixed mime type.
Preprocessed(file) == [base64Data |-> ToDataURL(file)[2], mimeType |-> "image/jpeg"]

\* The object one callback of files.map resolves with.
ImagePart(p) == [inlineData |-> [mimeType |-> p.mimeType, data |-> p.base64Data]]

NoValue == [base64Data |-> [source |-> "", filter |-> ""], mimeType |-> ""]

\* The promise of one file: reading (FileReader running), decoding (Image
\* loading), fulfilled with a value or rejected with a reason.
Reading == [stage |-> "reading", value |-> NoValue, reason |-> NoError]
Decoding == [stage |-> "decoding", value |-> NoValue, reason |-> NoError]
Fulfilled(v) == [stage |-> "fulfilled", value |-> v, reason |-> NoError]
Rejected(e) == [stage |-> "rejected", value |-> NoValue, reason |-> e]

\* Promise.all: fulfilled once every promise is, with the values in the
\* order of the promises.
AllFulfilled(ps) == \A i \in 1..Len(ps) : ps[i].stage = "fulfilled"
PromiseAllValuesReversed(ps) ==
    [i \in 1..Len(ps) |-> ImagePart(ps[Len(ps) + 1 - i].value)]
PromiseAllValues(ps) == [i \in 1..Len(ps) |-> ImagePart(ps[i].value)]

Prompt == [text |-> "Your task is to act as an expert data entry specialist."]

\* The argument of ai.models.generateContent.
Request(imageParts) ==
    [model |-> "gemini-2.5-pro",
     contents |-> [parts |-> imageParts \o <<Prompt>>],
     responseMimeType |-> "application/json"]

NoResponse == [state |-> "none", text |-> NoText, error |-> NoError]

\* ---- state ------------------------------------------------------------
VARIABLES
    apiKey,     \* process.env.API_KEY
    pc,         \* where the call of extractContactsFromImages stands
    files,      \* the argument of the call
    promises,   \* one promise per file, in the order of files
    requests,   \* the requests handed to generateContent, oldest first
    response,   \* how the generateContent promise settled
    result,     \* the list the call returned
    error       \* the value the call threw

\* The state of the App component (src/App.tsx) and of the browser's store
\* of object URLs.
VARIABLES
    selectedFiles,      \* useState<File[]>
    imagePreviews,      \* useState<string[]>: object URLs, here their numbers
    extractedContacts,  \* useState<ContactInfo[]>
    isLoading,          \* useState<boolean>
    appError,           \* the state cell `error`: null or a message
    objectURLs,         \* every URL made by URL.createObjectURL, by number
    extractedFrom       \* history: the files of the call extractedContacts came from

appVars == <<selectedFiles, imagePreviews, extractedContacts, isLoading,
             appError, objectURLs, extractedFrom>>

callVars == <<apiKey, pc, files, promises, requests, response, result, error>>

vars == <<apiKey, pc, files, promises, requests, response, result, error,
          selectedFiles, imagePreviews, extractedContacts, isLoading,
          appError, objectURLs, extractedFrom>>

Init ==
    /\ apiKey \in ApiKeys
    /\ pc = "idle"
    /\ files = <<>>
    /\ promises = <<>>
    /\ requests = <<>>
    /\ response = NoResponse
    /\ result = <<>>
    /\ error = NoError
    /\ selectedFiles = <<>>
    /\ imagePreviews = <<>>
    /\ extractedContacts = <<>>
    /\ isLoading = FALSE
    /\ appError = Null
    /\ objectURLs = <<>>
    /\ extractedFrom = <<>>

\* The call without the guard of lines 48-50.
ExtractNoKeyCheck(fs) ==
    /\ pc = "idle"
    /\ files' = fs
    /\ IF Len(fs) = 0
       THEN /\ pc' = "returned"
            /\ result' = <<>>
            /\ UNCHANGED <<promises, error>>
       ELSE /\ pc' = "preprocessing"
            /\ promises' = [i \in 1..Len(fs) |-> Reading]
            /\ UNCHANGED <<result, error>>
    /\ UNCHANGED <<apiKey, requests, response>>

\* The call without the guard of lines 52-54: Promise.all of no promises
\* is fulfilled at once and the request goes out with the prompt alone.
ExtractNoEmptyCheck(fs) ==
    /\ pc = "idle"
    /\ files' = fs
    /\ IF ~Truthy(apiKey)
       THEN /\ pc' = "threw"
            /\ error' = ConfigurationError
            /\ UNCHANGED <<promises, requests>>
       ELSE IF Len(fs) = 0
       THEN /\ pc' = "awaiting"
            /\ requests' = Append(requests, Request(<<>>))
            /\ UNCHANGED <<promises, error>>
       ELSE /\ pc' = "preprocessing"
            /\ promises' = [i \in 1..Len(fs) |-> Reading]
            /\ UNCHANGED <<requests, error>>
    /\ UNCHANGED <<apiKey, response, result>>

\* Lines 47-66: the two guards, then one preprocessImage per file, each of
\* which starts its FileReader at once.
Extract(fs) ==
    /\ pc = "idle"
    /\ files' = fs
    /\ IF ~Truthy(apiKey)
       THEN /\ pc' = "threw"
            /\ error' = ConfigurationError
            /\ UNCHANGED <<promises, result>>
       ELSE IF Len(fs) = 0
       THEN /\ pc' = "returned"
            /\ result' = <<>>
            /\ UNCHANGED <<promises, error>>
       ELSE /\ pc' = "preprocessing"
            /\ promises' = [i \in 1..Len(fs) |-> Reading]
            /\ UNCHANGED <<result, error>>
    /\ UNCHANGED <<apiKey, requests, response>>

\* A rejection that is swallowed: the promise is rejected, the call goes on.
RejectSwallowed(i, e) ==
    /\ promises' = [promises EXCEPT ![i] = Rejected(e)]
    /\ UNCHANGED <<apiKey, pc, files, requests, response, result, error>>

\* A rejected preprocessImage promise rejects Promise.all, and with it the
\* call, unless the call has already ended.
Reject(i, e) ==
    /\ promises' = [promises EXCEPT ![i] = Rejected(e)]
    /\ IF pc = "preprocessing"
       THEN pc' = "threw" /\ error' = e
       ELSE UNCHANGED <<pc, error>>
    /\ UNCHANGED <<apiKey, files, requests, response, result>>

\* A fulfilled preprocessImage promise; the last one fulfils Promise.all and
\* the call goes on to line 92 and sends the request.
Resolve(i, v) ==
    LET ps == [promises EXCEPT ![i] = Fulfilled(v)] IN
    /\ promises' = ps
    /\ IF pc = "preprocessing" /\ AllFulfilled(ps)
       THEN /\ requests' = Append(requests, Request(PromiseAllValues(ps)))
            /\ pc' = "awaiting"
       ELSE UNCHANGED <<requests, pc>>
    /\ UNCHANGED <<apiKey, files, response, result, error>>

\* reader.onload: the Image starts loading the data URL.
ReaderOnload(i) ==
    /\ promises[i].stage = "reading"
    /\ promises' = [promises EXCEPT ![i] = Decoding]
    /\ UNCHANGED <<apiKey, pc, files, requests, response, result, error>>

\* reader.onerror
ReaderOnerror(i) ==
    /\ promises[i].stage = "reading"
    /\ Reject(i, ReadError(i))

\* image.onerror
ImageOnerror(i) ==
    /\ promises[i].stage = "decoding"
    /\ Reject(i, DecodeError(i))

\* image.onload; hasCtx tells whether canvas.getContext('2d') gave a context.
ImageOnload(i, hasCtx) ==
    /\ promises[i].stage = "decoding"
    /\ IF hasCtx
       THEN Resolve(i, Preprocessed(files[i]))
       ELSE Reject(i, RenderError(i))

\* The generateContent promise fulfils: lines 155-182.
GenerateContentResolves(text) ==
    /\ pc = "awaiting"
    /\ response' = [state |-> "resolved", text |-> text, error |-> NoError]
    /\ LET out == ParseResponse(text) IN
       /\ pc' = IF out.threw THEN "threw" ELSE "returned"
       /\ result' = out.value
       /\ error' = out.error
    /\ UNCHANGED <<apiKey, files, promises, requests>>

\* A rejection answered by sending the same request again.
GenerateContentRejectsRetry(e) ==
    /\ pc = "awaiting"
    /\ response' = [state |-> "rejected", text |-> NoText, error |-> e]
    /\ requests' = Append(requests, requests[Len(requests)])
    /\ UNCHANGED <<apiKey, pc, files, promises, result, error>>

\* The generateContent promise rejects: the await of line 92 is outside the
\* try block, so the call throws the same value.
GenerateContentRejects(e) ==
    /\ pc = "awaiting"
    /\ response' = [state |-> "rejected", text |-> NoText, error |-> e]
    /\ pc' = "threw"
    /\ error' = e
    /\ UNCHANGED <<apiKey, files, promises, requests, result>>

\* One call of extractContactsFromImages on its own, the App left aside.
Next ==
    \/ \E fs \in FileLists : Extract(fs) /\ UNCHANGED appVars
    \/ \E i \in 1..Len(promises) : ReaderOnload(i) /\ UNCHANGED appVars
    \/ \E i \in 1..Len(promises) : ReaderOnerror(i) /\ UNCHANGED appVars
    \/ \E i \in 1..Len(promises) : ImageOnerror(i) /\ UNCHANGED appVars
    \/ \E i \in 1..Len(promises), hasCtx \in BOOLEAN :
          ImageOnload(i, hasCtx) /\ UNCHANGED appVars
    \/ \E text \in ResponseTexts : GenerateContentResolves(text) /\ UNCHANGED appVars
    \/ \E e \in TransportErrors : GenerateContentRejects(e) /\ UNCHANGED appVars

Spec == Init /\ [][Next]_vars

TypeOK ==
    /\ apiKey \in ApiKeys
    /\ pc \in {"idle", "preprocessing", "awaiting", "returned", "threw"}
    /\ files \in FileLists
    /\ Len(promises) \in {0, Len(files)}
    /\ Len(requests) \in 0..1

\* ---- the App component (src/App.tsx) --------------------------------------
MaxUrls == 3

UnknownErrorMessage == "An unknown error occurred. Please check the console."
SelectFilesMessage == "Please select at least one image file."

\* err instanceof Error ? err.message : the fixed text (line 53). A DOM event
\* is no Error and carries no message of its own.
ErrorText(e) == IF e.kind = "Error" THEN e.message ELSE UnknownErrorMessage

\* URL.createObjectURL for every file of fs, in order: the store grows by one
\* entry per file and the URL is the number of its entry.
CreateObjectURLs(store, fs) ==
    store \o [i \in 1..Len(fs) |-> [file |-> fs[i], revoked |-> FALSE]]
NewPreviews(store, fs) == [i \in 1..Len(fs) |-> Len(store) + i]

\* URL.revokeObjectURL for every URL of urls.
RevokeObjectURLs(store, urls) ==
    [k \in 1..Len(store) |->
        IF \E j \in 1..Len(urls) : urls[j] = k
        THEN [store[k] EXCEPT !.revoked = TRUE]
        ELSE store[k]]

\* list.filter((_, index) => index !== indexToRemove), with positions
\* counted from 1.
FilterOut(list, indexToRemove) ==
    IF indexToRemove \in 1..Len(list)
    THEN [j \in 1..(Len(list) - 1) |->
             IF j < indexToRemove THEN list[j] ELSE list[j + 1]]
    ELSE list

\* Lines 16-25.
HandleFilesChange(fs) ==
    /\ Len(objectURLs) + Len(fs) <= MaxUrls
    /\ selectedFiles' = fs
    /\ extractedContacts' = <<>>
    /\ extractedFrom' = <<>>
    /\ appError' = Null
    /\ objectURLs' = RevokeObjectURLs(CreateObjectURLs(objectURLs, fs), imagePreviews)
    /\ imagePreviews' = NewPreviews(objectURLs, fs)
    /\ UNCHANGED isLoading
    /\ UNCHANGED callVars

\* A removal that forgets the file list.
HandleClearFilePreviewsOnly(indexToRemove) ==
    /\ imagePreviews' = FilterOut(imagePreviews, indexToRemove)
    /\ UNCHANGED <<selectedFiles, extractedContacts, extractedFrom, appError,
                   isLoading, objectURLs>>
    /\ UNCHANGED callVars

\* Lines 27-36.
HandleClearFile(indexToRemove) ==
    LET newFiles == FilterOut(selectedFiles, indexToRemove)
        newPreviews == FilterOut(imagePreviews, indexToRemove) IN
    /\ selectedFiles' = newFiles
    /\ imagePreviews' = newPreviews
    /\ IF Len(newFiles) = 0
       THEN /\ extractedContacts' = <<>>
            /\ extractedFrom' = <<>>
            /\ appError' = Null
       ELSE UNCHANGED <<extractedContacts, extractedFrom, appError>>
    /\ UNCHANGED <<isLoading, objectURLs>>
    /\ UNCHANGED callVars

\* handleExtract without setExtractedContacts([]) before the call.
HandleExtractKeepsContacts ==
    IF Len(selectedFiles) = 0
    THEN /\ appError' = Str(SelectFilesMessage)
         /\ UNCHANGED <<selectedFiles, imagePreviews, extractedContacts,
                        isLoading, objectURLs, extractedFrom>>
         /\ UNCHANGED callVars
    ELSE /\ isLoading' = TRUE
         /\ appError' = Null
         /\ Extract(selectedFiles)
         /\ UNCHANGED <<selectedFiles, imagePreviews, objectURLs,
                        extractedContacts, extractedFrom>>

\* handleExtract without setError(null) before the call.
HandleExtractKeepsError ==
    IF Len(selectedFiles) = 0
    THEN /\ appError' = Str(SelectFilesMessage)
         /\ UNCHANGED <<selectedFiles, imagePreviews, extractedContacts,
                        isLoading, objectURLs, extractedFrom>>
         /\ UNCHANGED callVars
    ELSE /\ isLoading' = TRUE
         /\ extractedContacts' = <<>>
         /\ extractedFrom' = <<>>
         /\ Extract(selectedFiles)
         /\ UNCHANGED <<selectedFiles, imagePreviews, objectURLs, appError>>

\* Lines 38-49: handleExtract up to its await; the call is made with the
\* files selected at that moment.
HandleExtract ==
    IF Len(selectedFiles) = 0
    THEN /\ appError' = Str(SelectFilesMessage)
         /\ UNCHANGED <<selectedFiles, imagePreviews, extractedContacts,
                        isLoading, objectURLs, extractedFrom>>
         /\ UNCHANGED callVars
    ELSE /\ isLoading' = TRUE
         /\ appError' = Null
         /\ extractedContacts' = <<>>
         /\ extractedFrom' = <<>>
         /\ Extract(selectedFiles)
         /\ UNCHANGED <<selectedFiles, imagePreviews, objectURLs>>

\* A continuation that resets isLoading on success only (no finally).
HandleExtractSettlesNoFinally ==
    /\ isLoading
    /\ pc \in {"returned", "threw"}
    /\ IF pc = "returned"
       THEN /\ extractedContacts' = result
            /\ extractedFrom' = files
            /\ isLoading' = FALSE
            /\ UNCHANGED appError
       ELSE /\ appError' = Str(ErrorText(error))
            /\ UNCHANGED <<extractedContacts, extractedFrom, isLoading>>
    /\ pc' = "idle"
    /\ files' = <<>>
    /\ promises' = <<>>
    /\ requests' = <<>>
    /\ response' = NoResponse
    /\ result' = <<>>
    /\ error' = NoError
    /\ UNCHANGED <<apiKey, selectedFiles, imagePreviews, objectURLs>>

\* Lines 49-56: handleExtract from its await on, once the call has ended;
\* the ended call leaves nothing behind.
HandleExtractSettles ==
    /\ isLoading
    /\ pc \in {"returned", "threw"}
    /\ IF pc = "returned"
       THEN /\ extractedContacts' = result
            /\ extractedFrom' = files
            /\ UNCHANGED appError
       ELSE /\ appError' = Str(ErrorText(error))
            /\ UNCHANGED <<extractedContacts, extractedFrom>>
    /\ isLoading' = FALSE
    /\ pc' = "idle"
    /\ files' = <<>>
    /\ promises' = <<>>
    /\ requests' = <<>>
    /\ response' = NoResponse
    /\ result' = <<>>
    /\ error' = NoError
    /\ UNCHANGED <<apiKey, selectedFiles, imagePreviews, objectURLs>>

\* The extract button is rendered while files are selected and is disabled
\* while loading (lines 79-84).
ExtractButtonEnabled == Len(selectedFiles) > 0 /\ ~isLoading

\* The rest of handleExtract runs as soon as the call has ended, before any
\* other event is handled.
ContinuationPending == pc \in {"returned", "threw"}

\* The answers the model is let to give to the App.
AppResponseTexts ==
    {Garbage,
     [kind |-> "json", doc |-> JsonArray(<<>>)],
     [kind |-> "json", doc |-> JsonArray(<<[t |-> "object", o |-> JaneDoeScenario]>>)],
     [kind |-> "json", doc |-> JsonArray(<<[t |-> "object", o |-> JaneDoeScenario],
                                            [t |-> "object", o |-> EmptyObject]>>)]}

AppNext ==
    \/ \E fs \in FileLists : ~ContinuationPending /\ HandleFilesChange(fs)
    \/ \E i \in 1..Len(imagePreviews) : ~ContinuationPending /\ HandleClearFile(i)
    \/ ExtractButtonEnabled /\ HandleExtract
    \/ HandleExtractSettles
    \/ \E i \in 1..Len(promises) :
          ~ContinuationPending /\ ReaderOnload(i) /\ UNCHANGED appVars
    \/ \E i \in 1..Len(promises) :
          ~ContinuationPending /\ ReaderOnerror(i) /\ UNCHANGED appVars
    \/ \E i \in 1..Len(promises) :
          ~ContinuationPending /\ ImageOnerror(i) /\ UNCHANGED appVars
    \/ \E i \in 1..Len(promises), hasCtx \in BOOLEAN :
          ~ContinuationPending /\ ImageOnload(i, hasCtx) /\ UNCHANGED appVars
    \/ \E text \in AppResponseTexts : GenerateContentResolves(text) /\ UNCHANGED appVars
    \/ \E e \in TransportErrors : GenerateContentRejects(e) /\ UNCHANGED appVars

AppSpec == Init /\ [][AppNext]_vars

\* The event loop runs the pending continuation of handleExtract.
AppFairSpec == AppSpec /\ WF_vars(HandleExtractSettles)

AppTypeOK ==
    /\ selectedFiles \in FileLists
    /\ Len(objectURLs) <= MaxUrls
    /\ isLoading \in BOOLEAN
    /\ isLoading <=> pc # "idle"

\* ---- properties ---------------------------------------------------------
\* The elements of the array the response parsed to.
ParsedElems == response.text.doc.elems
ParsedToArray ==
    /\ response.state = "resolved"
    /\ response.text.kind = "json"
    /\ response.text.doc.t = "array"

\* The image payloads of a request: its parts that carry inlineData.
ImagePartsOf(req) ==
    SelectSeq(req.contents.parts, LAMBDA part : "inlineData" \in DOMAIN part)

RejectedFiles == {i \in 1..Len(promises) : promises[i].stage = "rejected"}

\* C1: in every list the call returns, an optional field whose response value
\* was the empty string, an empty array, null or omitted is null, and no
\* optional field holds an empty string or an empty array.
C1_AbsenceNormalization ==
    pc = "returned" /\ ParsedToArray =>
        \A i \in 1..Len(result), f \in OptionalFields :
            /\ ParsedElems[i].o[f] \in {Undefined, Null, Str(""), Arr(<<>>)}
                  => result[i][f] = Null
            /\ result[i][f] \notin {Str(""), Arr(<<>>)}

\* C2: a response that is not JSON, or is JSON but not an array, makes the
\* call throw the response-format error and return no records.
C2_ResponseFormatValidation ==
    response.state = "resolved" /\ ~ParsedToArray =>
        /\ pc = "threw"
        /\ error = ResponseFormatError
        /\ result = <<>>

C2_Witness ==
    /\ response.state = "resolved"
    /\ response.text.kind = "json"
    /\ response.text.doc.t = "object"
    /\ pc = "threw"

\* C3: with no credential, a call with a non-empty file list throws the
\* configuration error, starts no preprocessing and sends no request.
C3_MissingCredential ==
    pc # "idle" /\ ~Truthy(apiKey) /\ Len(files) > 0 =>
        /\ pc = "threw"
        /\ error = ConfigurationError
        /\ promises = <<>>
        /\ requests = <<>>
        /\ response = NoResponse

C3_Witness ==
    /\ pc = "threw"
    /\ apiKey = Undefined
    /\ Len(files) = MaxFiles
    /\ error = ConfigurationError

\* C4 as stated: every call with zero files returns an empty list, with no
\* preprocessing and no request.
C4_EmptyBatchAlwaysReturns ==
    pc # "idle" /\ Len(files) = 0 =>
        /\ pc = "returned"
        /\ result = <<>>
        /\ promises = <<>>
        /\ requests = <<>>

\* C4 as amended: a call with zero files starts no preprocessing and sends
\* no request; it returns an empty list when a credential is configured and
\* throws the configuration error when none is.
C4_EmptyBatch ==
    pc # "idle" /\ Len(files) = 0 =>
        /\ promises = <<>>
        /\ requests = <<>>
        /\ response = NoResponse
        /\ Truthy(apiKey) => pc = "returned" /\ result = <<>> /\ error = NoError
        /\ ~Truthy(apiKey) => pc = "threw" /\ error = ConfigurationError

C4_Witness ==
    /\ pc = "returned"
    /\ Len(files) = 0
    /\ apiKey = Str("key")

\* C5: once the preprocessing of a file has failed, the call has thrown the
\* reason of a failed file (of the failed file, when there is one), no
\* request was sent and nothing was returned, whatever the other files did.
C5_PreprocessingFailFast ==
    RejectedFiles # {} =>
        /\ pc = "threw"
        /\ \E i \in RejectedFiles : error = promises[i].reason /\ error.file = i
        /\ \A i \in RejectedFiles : RejectedFiles = {i} => error = promises[i].reason
        /\ requests = <<>>
        /\ response = NoResponse
        /\ result = <<>>

C5_Witness ==
    /\ pc = "threw"
    /\ \E i, j \in 1..Len(promises) :
          /\ promises[i].stage = "fulfilled"
          /\ promises[j].stage = "rejected"
          /\ i < j

\* C6: a returned list has the length of the parsed array and its i-th record
\* carries the name and the truthy optional values of the i-th element,
\* whatever the number of input files.
C6_OrderPreservation ==
    pc = "returned" /\ ParsedToArray =>
        /\ Len(result) = Len(ParsedElems)
        /\ \A i \in 1..Len(result) :
              /\ result[i].name = ParsedElems[i].o.name
              /\ \A f \in OptionalFields :
                    result[i][f] \in {ParsedElems[i].o[f], Null}
                    /\ (Truthy(ParsedElems[i].o[f]) => result[i][f] # Null)

C6_Witness ==
    /\ pc = "returned"
    /\ Len(files) = 1
    /\ Len(result) = 2
    /\ result[1] # result[2]
    /\ result[1].name = Undefined

\* C7: when every file has been preprocessed the request is out, and a request
\* carries one image payload per input file, each of mime type image/jpeg.
C7_OnePayloadPerFile ==
    /\ (Len(promises) > 0 /\ \A i \in 1..Len(promises) : promises[i].stage = "fulfilled")
          => Len(requests) = 1
    /\ \A r \in 1..Len(requests) :
          /\ Len(ImagePartsOf(requests[r])) = Len(files)
          /\ \A i \in 1..Len(ImagePartsOf(requests[r])) :
                ImagePartsOf(requests[r])[i].inlineData.mimeType = "image/jpeg"

C7_Witness ==
    /\ Len(requests) = 1
    /\ Len(files) = MaxFiles
    /\ \E i \in 1..Len(files) : files[i].type = "image/png"
    /\ \E i \in 1..Len(files) : files[i].type = "image/webp"

\* C8: every record of a returned list has a name that is non-empty text.
C8_RequiredName ==
    pc = "returned" =>
        \A i \in 1..Len(result) :
            result[i].name.t = "string" /\ result[i].name.s # ""

\* C9: a call sends at most one request, and when the request fails the call
\* has thrown that very error, with one request sent and nothing returned.
C9_SingleRequestNoRetry ==
    /\ Len(requests) <= 1
    /\ response.state = "rejected" =>
          /\ pc = "threw"
          /\ error = response.error
          /\ Len(requests) = 1
          /\ result = <<>>

C9_Witness ==
    /\ response.state = "rejected"
    /\ response.error \in TransportErrors
    /\ pc = "threw"

\* C10: no request is out while a file is still being preprocessed or has
\* failed, and the i-th image payload of a request is the encoding of the
\* i-th input file.
C10_FanInOrdering ==
    /\ pc = "preprocessing" => requests = <<>>
    /\ \A r \in 1..Len(requests) :
          /\ Len(promises) = Len(files)
          /\ \A i \in 1..Len(promises) : promises[i].stage = "fulfilled"
          /\ Len(ImagePartsOf(requests[r])) = Len(files)
          /\ \A i \in 1..Len(files) :
                ImagePartsOf(requests[r])[i].inlineData.data.source = files[i].name

C10_Witness ==
    /\ Len(requests) = 1
    /\ Len(files) = 2
    /\ files[1].name # files[2].name

\* ---- properties of the App -------------------------------------------------
\* The step in which the rest of handleExtract runs, after a call that
\* returned or after one that threw.
SettlesReturned == pc = "returned" /\ pc' = "idle"
SettlesThrown == pc = "threw" /\ pc' = "idle"

\* C11: from the start of an extraction until it settles the App holds no
\* records and no error, and when the call returns a list extractedContacts
\* becomes exactly that list.
C11_ResultsReplaced ==
    /\ [](isLoading => extractedContacts = <<>> /\ appError = Null)
    /\ [][SettlesReturned => extractedContacts' = result]_vars

C11_Witness ==
    /\ ~isLoading
    /\ Len(extractedContacts) = 2
    /\ extractedContacts[1] # extractedContacts[2]
    /\ \E k \in 1..Len(objectURLs) : objectURLs[k].revoked

\* C12 as stated: isLoading is true exactly from the start of an extraction
\* until it settles and is false again once the call has ended; after a
\* failed call error holds the message of the thrown value and no records
\* are held.
C12_ErrorHoldsFailureMessage ==
    /\ [](isLoading <=> pc # "idle")
    /\ [][SettlesThrown =>
            /\ appError' = Str(error.message)
            /\ extractedContacts' = <<>>
            /\ ~isLoading']_vars
    /\ [][SettlesReturned => ~isLoading']_vars

\* C12 as amended: as above, but error holds the message of the thrown value
\* when that value is an Error and the fixed unknown-error text when it is
\* not; and a call that has ended leads to isLoading being false.
C12_ErrorPresentation ==
    /\ [](isLoading <=> pc # "idle")
    /\ [][SettlesThrown =>
            /\ error.kind = "Error" => appError' = Str(error.message)
            /\ error.kind # "Error" => appError' = Str(UnknownErrorMessage)
            /\ extractedContacts' = <<>>
            /\ ~isLoading']_vars
    /\ [][SettlesReturned => ~isLoading']_vars
    /\ (pc \in {"returned", "threw"})
          ~> (~isLoading /\ (Len(selectedFiles) > 0 => ExtractButtonEnabled))

C12_Witness ==
    /\ ~isLoading
    /\ appError = Str(UnknownErrorMessage)
    /\ extractedContacts = <<>>
    /\ Len(selectedFiles) > 0

\* C13: every object URL that was created and is no longer a preview has
\* been revoked.
C13_NoPreviewLeak ==
    \A k \in 1..Len(objectURLs) :
        (\A j \in 1..Len(imagePreviews) : imagePreviews[j] # k)
            => objectURLs[k].revoked

\* C14: records are shown only for a run over exactly the files selected now.
C14_NoStaleResults ==
    extractedContacts # <<>> => extractedFrom = selectedFiles

C16_ErrorAndResultsExclusive ==
    ~(appError # Null /\ extractedContacts # <<>>)

C16_Witness ==
    /\ appError # Null
    /\ isLoading = FALSE
    /\ Len(selectedFiles) > 0
    /\ Len(objectURLs) = MaxUrls

====
